---- MODULE Spec2Model ----
(***************************************************************************)
(* Model of the AgentCore runtime CI/CD scripts.                           *)
(*                                                                         *)
(*   scripts/deploy_agent.py   deploy_agent   (the Reconciler)             *)
(*   scripts/cleanup_ecr.py    cleanup_ecr_images / process_repository     *)
(*                             (the Retention Pruner)                      *)
(*   scripts/test_agent.py     test_agent     (the Validation Harness)     *)
(*   scripts/create_guardrail.py   create_minimal_guardrail                *)
(*                                                                         *)
(* The Reconciler is modelled one remote call or file statement per step,  *)
(* so that the control plane and the deployment_info.txt file can be       *)
(* observed between the steps.  The control plane is the boto3 client the  *)
(* script calls: its state (the runtimes) lives in the model, and each     *)
(* call either acts on it or fails.                                        *)
(***************************************************************************)
EXTENDS Integers, Sequences, FiniteSets, TLC

\* ------------------------------------------------------------------ bounds
NumNames == 2        \* agent names a run may be given
NumUris == 2         \* container URIs a run may be given
NumJobs == 2         \* deploy jobs (processes) that exist
MaxImages == 3       \* images in the repository (general inputs)
NumTimes == 2        \* distinct push timestamps
MaxKeep == 4         \* largest |keep_count| drawn
MaxCalls == 3        \* calls of create_minimal_guardrail in a row

Names == 1..NumNames
Uris == 1..NumUris
Jobs == 1..NumJobs
\* One deploy job at a time: the pipeline runs deploy_agent.py to completion
\* before it is started again.
SeqJobs == {1}

\* Python's None, for a text, for a dict and for a number.
None == "None"
NoneRec == [none |-> TRUE]
Missing == 0 - 1
\* deployment_info.txt: whether it exists, and its lines.
NoFile == [exists |-> FALSE, lines |-> <<>>]
File(lines) == [exists |-> TRUE, lines |-> lines]

VARIABLES
    \* ---- bedrock-agentcore-control (the control plane)
    runtimes,          \* set of [agentRuntimeId, agentRuntimeName, containerUri]
    nextId,            \* next agentRuntimeId the control plane assigns
    \* ---- the working directory
    deployment_info,   \* deployment_info.txt on disk: NoFile or File(<<key, value>> lines)
    \* ---- deploy_agent, per job
    pc,                \* position of the job in deploy_agent
    args,              \* [agent_name, container_uri, auto_update, role_file]
    existing_agents,   \* the listing list_agent_runtimes returned (empty when it returned none)
    existing_agent,    \* the listed runtime whose name matched, or NoneRec
    agent_exists,
    response,          \* response of create/update: [agentRuntimeArn, agentRuntimeId] or NoneRec
    f,                 \* text written to the open file object and not yet flushed
    outcome,           \* how the run ended: [kind, err]
    result,            \* the dict deploy_agent returned, or NoneRec
    \* ---- history (not program state)
    calls,             \* the remote calls the run issued, in order: [op, key, ok, err]
    recordAtStart,     \* deployment_info when the run started
    prev,              \* summary of the run that completed before the current one
    \* ---- cleanup_ecr
    ppc,               \* position in cleanup_ecr_images
    repo_exists,       \* whether the ECR repository exists
    images,            \* imageDetails of the repository, in the order describe_images lists them
    keep_count,
    apiFail,           \* the ECR call that failed in this run, or None
    sorted_images,     \* [status, list]: status "unset", "TypeError" when sorted() raised, or "ok"
    images_to_delete,
    batches,           \* the batch_delete_image calls issued: sequence of digest sequences
    raised,            \* whether cleanup_ecr_images raised to its caller
    images0,           \* the repository's images when the run started (history)
    \* ---- test_agent
    tpc,               \* position in test_agent
    test_agent_name,   \* the agent_name test_agent was given
    test_listing,      \* the listing list_agent_runtimes returned to test_agent
    agent_arn,         \* Missing for None
    agent_id,          \* Missing for None
    status,            \* the status get_agent_runtime returned, or "unset"
    test_i,            \* the test case the loop is at (1-based)
    last_response,     \* what invoke_agent_runtime returned for the current case
    case_outcome,      \* per test case: "pending", "passed" or "failed" (the log)
    case_state,        \* per test case: how far the case got and how it was displayed
    invoked,           \* per test case: number of invoke_agent_runtime calls issued
    all_passed,
    test_result,       \* what test_agent returned: "unset", "True", "False" or "raised"
    tcalls,            \* the control-plane calls test_agent issued, in order
    \* ---- bedrock (the guardrail service) and create_guardrail
    guardrails,        \* set of [id, name]: the guardrails that exist
    nextGuardrailId,   \* next id the service assigns
    gpc,               \* position in create_minimal_guardrail
    guardrail_listing, \* what list_guardrails returned to the current call
    guardrail_id,      \* Missing for unset
    guardrail_id_file, \* guardrail_id.txt: the id it holds, Missing when absent
    gcalls,            \* the bedrock calls the current call issued: [op, ok]
    goutcome,          \* "none", "returned" or "raised"
    returned_ids,      \* the ids the calls so far returned (history)
    stale,             \* whether some listing so far left out an existing guardrail (history)
    gruns              \* number of calls of create_minimal_guardrail so far

rvars == <<runtimes, nextId, deployment_info, pc, args, existing_agents, existing_agent,
           agent_exists, response, f, outcome, result, calls, recordAtStart, prev>>
pvars == <<ppc, repo_exists, images, keep_count, apiFail, sorted_images, images_to_delete,
           batches, raised, images0>>
tvars == <<tpc, test_agent_name, test_listing, agent_arn, agent_id, status, test_i, last_response,
           case_outcome, case_state, invoked, all_passed, test_result, tcalls>>
gvars == <<guardrails, nextGuardrailId, gpc, guardrail_listing, guardrail_id,
           guardrail_id_file, gcalls, goutcome, returned_ids, stale, gruns>>
vars == <<rvars, pvars, tvars, gvars>>

\* ============================================================ control plane

\* The canonical address the control plane derives from a runtime id.
ArnOf(id) == 1000 + id

RuntimeView(r) ==
    [agentRuntimeId |-> r.agentRuntimeId,
     agentRuntimeArn |-> ArnOf(r.agentRuntimeId),
     agentRuntimeName |-> r.agentRuntimeName]

\* Sequences without repetition over a finite set S.
RECURSIVE Orderings(_)
Orderings(S) ==
    IF S = {} THEN {<<>>}
    ELSE UNION {{<<x>> \o t : t \in Orderings(S \ {x})} : x \in S}

\* What list_agent_runtimes may return: the listing is best-effort, so any
\* subset of the runtimes that exist, in any order.
Listings(rs) == UNION {Orderings({RuntimeView(r) : r \in sub}) : sub \in SUBSET rs}

NameTaken(rs, name) == \E r \in rs : r.agentRuntimeName = name

\* ============================================================ deploy_agent

\* Lines 68-73: scan the listing for the first runtime with the target name.
FindAgent_First(agents, agent_name) ==
    IF agents = <<>> THEN NoneRec ELSE Head(agents)

RECURSIVE FindAgent(_, _)
FindAgent(agents, agent_name) ==
    IF agents = <<>> THEN NoneRec
    ELSE IF Head(agents).agentRuntimeName = agent_name THEN Head(agents)
    ELSE FindAgent(Tail(agents), agent_name)

\* Lines 43-46: open("role_arn.txt") raises FileNotFoundError.
RoleMissing_Ignored(role_file) == FALSE

RoleMissing(role_file) == role_file = None

\* Lines 79-95: which branch the run takes after the listing.
BranchOf_AlwaysCreateUnlessUpdate(exists, auto_update) ==
    IF exists /\ auto_update THEN "update" ELSE "create"

BranchOf_UpdateWhenListed(exists, auto_update) ==
    IF exists THEN "update" ELSE "create"

BranchOf(exists, auto_update) ==
    IF exists /\ ~auto_update THEN "conflict"
    ELSE IF exists /\ auto_update THEN "update"
    ELSE "create"

\* Lines 108-116: what a ClientError of create_agent_runtime leads to.
OnCreateError_NeverAmbiguous(code, auto_update) == "raise"

OnCreateError_AnyCodeAmbiguous(code, auto_update) ==
    IF auto_update THEN "ambiguous" ELSE "raise"

OnCreateError(code, auto_update) ==
    IF code = "ConflictException" /\ auto_update THEN "ambiguous" ELSE "raise"

\* Lines 118-119, 131-135: the returned dict.
ResultOf_OtherUri(resp, container_uri) ==
    [agent_arn |-> resp.agentRuntimeArn, agent_id |-> resp.agentRuntimeId,
     ecr_uri |-> (container_uri % NumUris) + 1]

ResultOf(resp, container_uri) ==
    [agent_arn |-> resp.agentRuntimeArn, agent_id |-> resp.agentRuntimeId,
     ecr_uri |-> container_uri]

\* Lines 123-125: the three lines of deployment_info.txt.
RecordLines(rec) ==
    <<<<"agent_arn", rec.agent_arn>>, <<"agent_id", rec.agent_id>>, <<"ecr_uri", rec.ecr_uri>>>>

NoOutcome == [kind |-> "none", err |-> None]
NoRun == [agent_name |-> 0]

Call(op, key, ok, err) == [op |-> op, key |-> key, ok |-> ok, err |-> err]

\* What is remembered of a completed run.
Summary(p) ==
    [agent_name |-> args[p].agent_name, container_uri |-> args[p].container_uri,
     auto_update |-> args[p].auto_update, kind |-> outcome[p].kind, result |-> result[p]]

\* The errors a remote call can fail with for reasons of its own: a service
\* error (botocore ClientError) or a transport error (not a ClientError).
RemoteErrors == {"ClientError", "ConnectionError"}

\* deploy_agent is called (line 187): the arguments and the role file as found.
Start(p) ==
    /\ pc[p] \in {"idle", "done"}
    /\ \E n \in Names, u \in Uris, au \in BOOLEAN, role \in {None, "role"} :
         args' = [args EXCEPT ![p] = [agent_name |-> n, container_uri |-> u,
                                       auto_update |-> au, role_file |-> role]]
    /\ prev' = IF pc[p] = "done" THEN Summary(p) ELSE prev
    /\ pc' = [pc EXCEPT ![p] = "read_role"]
    /\ existing_agents' = [existing_agents EXCEPT ![p] = <<>>]
    /\ existing_agent' = [existing_agent EXCEPT ![p] = NoneRec]
    /\ agent_exists' = [agent_exists EXCEPT ![p] = FALSE]
    /\ response' = [response EXCEPT ![p] = NoneRec]
    /\ f' = [f EXCEPT ![p] = <<>>]
    /\ outcome' = [outcome EXCEPT ![p] = NoOutcome]
    /\ result' = [result EXCEPT ![p] = NoneRec]
    /\ calls' = [calls EXCEPT ![p] = <<>>]
    /\ recordAtStart' = [recordAtStart EXCEPT ![p] = deployment_info]
    /\ UNCHANGED <<runtimes, nextId, deployment_info,
                   pvars, tvars, gvars>>

\* Lines 43-49: role_arn.txt is read; without it the process exits.
ReadRole(p) ==
    /\ pc[p] = "read_role"
    /\ IF RoleMissing(args[p].role_file)
       THEN /\ outcome' = [outcome EXCEPT ![p] = [kind |-> "Precondition", err |-> "FileNotFoundError"]]
            /\ pc' = [pc EXCEPT ![p] = "done"]
       ELSE /\ pc' = [pc EXCEPT ![p] = "list"]
            /\ UNCHANGED outcome
    /\ UNCHANGED <<runtimes, nextId, deployment_info, args, existing_agents, existing_agent,
                   agent_exists, response, f, result, calls, recordAtStart, prev,
                   pvars, tvars, gvars>>

\* Where the run goes after the listing (lines 77-95).
AfterListing(p, exists) ==
    LET b == BranchOf(exists, args[p].auto_update) IN
    IF b = "conflict"
    THEN /\ outcome' = [outcome EXCEPT ![p] = [kind |-> "Conflict", err |-> None]]
         /\ pc' = [pc EXCEPT ![p] = "done"]
    ELSE /\ pc' = [pc EXCEPT ![p] = b]
         /\ UNCHANGED outcome

\* Lines 63-73: list_agent_runtimes returns a listing, which is scanned.
ListAgents(p) ==
    /\ pc[p] = "list"
    /\ \E listing \in Listings(runtimes) :
         LET found == FindAgent(listing, args[p].agent_name) IN
         /\ existing_agents' = [existing_agents EXCEPT ![p] = listing]
         /\ existing_agent' = [existing_agent EXCEPT ![p] = found]
         /\ agent_exists' = [agent_exists EXCEPT ![p] = (found # NoneRec)]
         /\ calls' = [calls EXCEPT ![p] = Append(@, Call("list", 0, TRUE, None))]
         /\ AfterListing(p, found # NoneRec)
    /\ UNCHANGED <<runtimes, nextId, deployment_info, args, response, f, result,
                   recordAtStart, prev,
                   pvars, tvars, gvars>>

\* Lines 65, 74-75: list_agent_runtimes raises; the error is logged as a
\* warning and the run goes on with agent_exists = False.
ListAgentsFails(p) ==
    /\ pc[p] = "list"
    /\ \E e \in RemoteErrors :
         calls' = [calls EXCEPT ![p] = Append(@, Call("list", 0, FALSE, e))]
    /\ AfterListing(p, FALSE)
    /\ UNCHANGED <<runtimes, nextId, deployment_info, args, existing_agents, existing_agent,
                   agent_exists, response, f, result, recordAtStart, prev,
                   pvars, tvars, gvars>>

\* Lines 137-139 for a ClientError, or the exception leaving deploy_agent.
Fatal(p, e) ==
    /\ outcome' = [outcome EXCEPT ![p] = [kind |-> "RemoteFailure", err |-> e]]
    /\ pc' = [pc EXCEPT ![p] = "done"]

\* Lines 85-94: update_agent_runtime keyed by the listed runtime's id.
UpdateRuntime(p) ==
    /\ pc[p] = "update"
    /\ LET id == existing_agent[p].agentRuntimeId IN
       /\ \E r \in runtimes :
            /\ r.agentRuntimeId = id
            /\ runtimes' = (runtimes \ {r}) \cup
                             {[r EXCEPT !.containerUri = args[p].container_uri]}
       /\ response' = [response EXCEPT ![p] =
                          [agentRuntimeArn |-> ArnOf(id), agentRuntimeId |-> id]]
       /\ calls' = [calls EXCEPT ![p] =
                          Append(@, Call("update", id, TRUE, None))]
    /\ pc' = [pc EXCEPT ![p] = "open"]
    /\ UNCHANGED <<nextId, deployment_info, args, existing_agents, existing_agent,
                   agent_exists, f, outcome, result, recordAtStart, prev,
                   pvars, tvars, gvars>>

UpdateRuntimeFails(p) ==
    /\ pc[p] = "update"
    /\ \E e \in RemoteErrors :
         /\ calls' = [calls EXCEPT ![p] =
                        Append(@, Call("update", existing_agent[p].agentRuntimeId, FALSE, e))]
         /\ Fatal(p, e)
    /\ UNCHANGED <<runtimes, nextId, deployment_info, args, existing_agents, existing_agent,
                   agent_exists, response, f, result, recordAtStart, prev,
                   pvars, tvars, gvars>>

\* Lines 98-107: create_agent_runtime keyed by name succeeds; the control
\* plane accepts it only when no runtime has the name.
CreateRuntime(p) ==
    /\ pc[p] = "create"
    /\ ~NameTaken(runtimes, args[p].agent_name)
    /\ runtimes' = runtimes \cup {[agentRuntimeId |-> nextId,
                                   agentRuntimeName |-> args[p].agent_name,
                                   containerUri |-> args[p].container_uri]}
    /\ nextId' = nextId + 1
    /\ response' = [response EXCEPT ![p] =
                      [agentRuntimeArn |-> ArnOf(nextId), agentRuntimeId |-> nextId]]
    /\ calls' = [calls EXCEPT ![p] =
                      Append(@, Call("create", args[p].agent_name, TRUE, None))]
    /\ pc' = [pc EXCEPT ![p] = "open"]
    /\ UNCHANGED <<deployment_info, args, existing_agents, existing_agent, agent_exists,
                   f, outcome, result, recordAtStart, prev,
                   pvars, tvars, gvars>>

\* Lines 108-116: create_agent_runtime raises a ClientError: the naming
\* conflict when the name is taken, or another service error.
CreateRuntimeClientError_Retries(p) ==
    /\ pc[p] = "create"
    /\ \E code \in {"ConflictException", "ClientError"} :
         /\ code = "ConflictException" => NameTaken(runtimes, args[p].agent_name)
         /\ calls' = [calls EXCEPT ![p] =
                        Append(@, Call("create", args[p].agent_name, FALSE, code))]
    /\ UNCHANGED <<runtimes, nextId, deployment_info, pc, args, existing_agents,
                   existing_agent, agent_exists, response, f, outcome, result,
                   recordAtStart, prev,
                   pvars, tvars, gvars>>

CreateRuntimeClientError(p) ==
    /\ pc[p] = "create"
    /\ \E code \in {"ConflictException", "ClientError"} :
         /\ code = "ConflictException" => NameTaken(runtimes, args[p].agent_name)
         /\ calls' = [calls EXCEPT ![p] =
                        Append(@, Call("create", args[p].agent_name, FALSE, code))]
         /\ LET h == OnCreateError(code, args[p].auto_update) IN
            IF h = "ambiguous"
            THEN /\ outcome' = [outcome EXCEPT ![p] =
                                  [kind |-> "AmbiguousConflict", err |-> code]]
                 /\ pc' = [pc EXCEPT ![p] = "done"]
            ELSE Fatal(p, code)
    /\ UNCHANGED <<runtimes, nextId, deployment_info, args, existing_agents, existing_agent,
                   agent_exists, response, f, result, recordAtStart, prev,
                   pvars, tvars, gvars>>

\* Line 98 raises something that is no ClientError: it leaves deploy_agent.
CreateRuntimeOtherError(p) ==
    /\ pc[p] = "create"
    /\ calls' = [calls EXCEPT ![p] =
                   Append(@, Call("create", args[p].agent_name, FALSE, "ConnectionError"))]
    /\ Fatal(p, "ConnectionError")
    /\ UNCHANGED <<runtimes, nextId, deployment_info, args, existing_agents, existing_agent,
                   agent_exists, response, f, result, recordAtStart, prev,
                   pvars, tvars, gvars>>

\* Line 122: open("deployment_info.txt", "w") creates or truncates the file.
OpenFile(p) ==
    /\ pc[p] = "open"
    /\ deployment_info' = File(<<>>)
    /\ f' = [f EXCEPT ![p] = <<>>]
    /\ pc' = [pc EXCEPT ![p] = "write1"]
    /\ UNCHANGED <<runtimes, nextId, args, existing_agents, existing_agent, agent_exists,
                   response, outcome, result, calls, recordAtStart, prev,
                   pvars, tvars, gvars>>

\* Lines 123-125: one f.write each; the text stays in the file object's buffer.
WriteLine(p, k) ==
    /\ pc[p] = <<"write1", "write2", "write3">>[k]
    /\ f' = [f EXCEPT ![p] =
               Append(@, RecordLines(ResultOf(response[p], args[p].container_uri))[k])]
    /\ pc' = [pc EXCEPT ![p] = <<"write2", "write3", "close">>[k]]
    /\ UNCHANGED <<runtimes, nextId, deployment_info, args, existing_agents, existing_agent,
                   agent_exists, response, outcome, result, calls, recordAtStart, prev,
                   pvars, tvars, gvars>>

\* End of the with block (line 125) and lines 127-135: the file is closed,
\* which flushes the buffer to disk, and the dict is returned.
CloseAndReturn(p) ==
    /\ pc[p] = "close"
    /\ deployment_info' = File(f[p])
    /\ f' = [f EXCEPT ![p] = <<>>]
    /\ result' = [result EXCEPT ![p] = ResultOf(response[p], args[p].container_uri)]
    /\ outcome' = [outcome EXCEPT ![p] = [kind |-> "ok", err |-> None]]
    /\ pc' = [pc EXCEPT ![p] = "done"]
    /\ UNCHANGED <<runtimes, nextId, args, existing_agents, existing_agent, agent_exists,
                   response, calls, recordAtStart, prev,
                   pvars, tvars, gvars>>

\* The run is interrupted inside the with block (lines 122-125): a
\* KeyboardInterrupt, or an exception of a write, leaves the block through
\* the file object's __exit__, which closes the file and so flushes what was
\* written so far.
Interrupt(p) ==
    /\ pc[p] \in {"write1", "write2", "write3", "close"}
    /\ deployment_info' = File(f[p])
    /\ f' = [f EXCEPT ![p] = <<>>]
    /\ outcome' = [outcome EXCEPT ![p] = [kind |-> "Interrupted", err |-> "KeyboardInterrupt"]]
    /\ pc' = [pc EXCEPT ![p] = "done"]
    /\ UNCHANGED <<runtimes, nextId, args, existing_agents, existing_agent, agent_exists,
                   response, result, calls, recordAtStart, prev,
                   pvars, tvars, gvars>>

DeployStep(p) ==
    \/ Start(p)
    \/ ReadRole(p)
    \/ ListAgents(p)
    \/ ListAgentsFails(p)
    \/ UpdateRuntime(p)
    \/ UpdateRuntimeFails(p)
    \/ CreateRuntime(p)
    \/ CreateRuntimeClientError(p)
    \/ CreateRuntimeOtherError(p)
    \/ OpenFile(p)
    \/ \E k \in 1..3 : WriteLine(p, k)
    \/ CloseAndReturn(p)
    \/ Interrupt(p)

\* ============================================================ cleanup_ecr

DefaultKeepCount == 9

\* An image of the repository as describe_images reports it.  n is its
\* position in the listing, which tells images apart in the history;
\* imageDigest and imagePushedAt are Missing when the key is missing.
Image(n, digest, pushedAt) == [n |-> n, imageDigest |-> digest, imagePushedAt |-> pushedAt]

\* Line 85: the sort key.  boto3 gives imagePushedAt as a datetime; the
\* default for a missing key is the int 0.
KeyOf_MissingIsNewest(x) ==
    IF x.imagePushedAt = Missing THEN [type |-> "datetime", v |-> NumTimes + 1]
    ELSE [type |-> "datetime", v |-> x.imagePushedAt]

KeyOf(x) ==
    IF x.imagePushedAt = Missing THEN [type |-> "int", v |-> 0]
    ELSE [type |-> "datetime", v |-> x.imagePushedAt]

\* Python orders two keys only when they are of one type: datetime < int
\* raises TypeError.
Comparable(k1, k2) == k1.type = k2.type

\* Insert x behind every element whose key is not smaller: newest first, and
\* images with equal keys stay in their listing order (sorted() is stable,
\* with reverse=True too).
RECURSIVE InsertNewestFirst(_, _)
InsertNewestFirst(s, x) ==
    IF s = <<>> THEN <<x>>
    ELSE IF KeyOf(Head(s)).v >= KeyOf(x).v THEN <<Head(s)>> \o InsertNewestFirst(Tail(s), x)
    ELSE <<x>> \o s

RECURSIVE SortNewestFirst(_)
SortNewestFirst(s) ==
    IF s = <<>> THEN <<>>
    ELSE InsertNewestFirst(SortNewestFirst(SubSeq(s, 1, Len(s) - 1)), s[Len(s)])

\* Lines 83-87: sorted(images, key=..., reverse=True).  Sorting two or more
\* images compares keys of every type present with each other.
Sorted(imgs) ==
    IF \E i, j \in DOMAIN imgs : ~Comparable(KeyOf(imgs[i]), KeyOf(imgs[j]))
    THEN [status |-> "TypeError", list |-> <<>>]
    ELSE [status |-> "ok", list |-> SortNewestFirst(imgs)]

\* Line 90: the Python slice s[k:], for any integer k.
SliceFrom_KeepOneMore(s, k) == SubSeq(s, (IF k + 1 > Len(s) THEN Len(s) ELSE k + 1) + 1, Len(s))

SliceFrom_NegativeFromStart(s, k) ==
    SubSeq(s, (IF k < 0 THEN 0 ELSE IF k > Len(s) THEN Len(s) ELSE k) + 1, Len(s))

SliceFrom_OneEarly(s, k) ==
    SubSeq(s, (IF k < 1 THEN 0 ELSE IF k - 1 > Len(s) THEN Len(s) ELSE k - 1) + 1, Len(s))

SliceFrom(s, k) ==
    LET n == Len(s)
        start == IF k < 0 THEN (IF n + k < 0 THEN 0 ELSE n + k)
                 ELSE (IF k > n THEN n ELSE k)
    IN SubSeq(s, start + 1, n)

\* Lines 94-97: the identifiers of the images that have a digest.
ImageIds_NoDigestCheck(imgs) == [i \in DOMAIN imgs |-> imgs[i].imageDigest]

RECURSIVE ImageIds(_)
ImageIds(imgs) ==
    IF imgs = <<>> THEN <<>>
    ELSE IF Head(imgs).imageDigest # Missing
    THEN <<Head(imgs).imageDigest>> \o ImageIds(Tail(imgs))
    ELSE ImageIds(Tail(imgs))

RECURSIVE SelectSeq2(_, _)
SelectSeq2(s, keep) ==
    IF s = <<>> THEN <<>>
    ELSE IF Head(s).imageDigest \in keep THEN SelectSeq2(Tail(s), keep)
    ELSE <<Head(s)>> \o SelectSeq2(Tail(s), keep)

SeqRange(s) == {s[i] : i \in DOMAIN s}

\* Lines 61-66: describe_repositories finds the repository.
DescribeRepositories ==
    /\ ppc = "start"
    /\ repo_exists
    /\ ppc' = "describe_images"
    /\ UNCHANGED <<repo_exists, images, keep_count, apiFail, sorted_images,
                   images_to_delete, batches, raised, images0,
                   rvars, tvars, gvars>>

\* Lines 65-66: the repository is absent; this is logged and nothing else is done.
RepositoryNotFound_Propagates ==
    /\ ppc = "start"
    /\ ~repo_exists
    /\ raised' = TRUE
    /\ ppc' = "done"
    /\ UNCHANGED <<repo_exists, images, keep_count, apiFail, sorted_images,
                   images_to_delete, batches, images0,
                   rvars, tvars, gvars>>

RepositoryNotFound ==
    /\ ppc = "start"
    /\ ~repo_exists
    /\ ppc' = "done"
    /\ UNCHANGED <<repo_exists, images, keep_count, apiFail, sorted_images,
                   images_to_delete, batches, raised, images0,
                   rvars, tvars, gvars>>

\* Line 62 raises something else: only RepositoryNotFoundException is caught.
DescribeRepositoriesFails ==
    /\ ppc = "start"
    /\ apiFail' = "describe_repositories"
    /\ raised' = TRUE
    /\ ppc' = "done"
    /\ UNCHANGED <<repo_exists, images, keep_count, sorted_images,
                   images_to_delete, batches, images0,
                   rvars, tvars, gvars>>

\* Lines 80-99, 107-111: the images are listed, sorted and sliced.  A
\* TypeError of sorted() is caught by line 110 and ends the run.
DescribeImages ==
    /\ ppc = "describe_images"
    /\ LET srt == Sorted(images) IN
       /\ sorted_images' = srt
       /\ IF srt.status = "TypeError"
          THEN /\ ppc' = "done"
               /\ UNCHANGED images_to_delete
          ELSE LET del == SliceFrom(srt.list, keep_count) IN
               /\ images_to_delete' = del
               /\ ppc' = IF del # <<>> /\ ImageIds(del) # <<>> THEN "batch_delete" ELSE "done"
    /\ UNCHANGED <<repo_exists, images, keep_count, apiFail, batches, raised, images0,
                   rvars, tvars, gvars>>

\* Line 80 raises: caught by line 110.
DescribeImagesFails ==
    /\ ppc = "describe_images"
    /\ apiFail' = "describe_images"
    /\ ppc' = "done"
    /\ UNCHANGED <<repo_exists, images, keep_count, sorted_images, images_to_delete,
                   batches, raised, images0,
                   rvars, tvars, gvars>>

\* Lines 101-106: one batch_delete_image call; the registry removes the images.
BatchDeleteImage ==
    /\ ppc = "batch_delete"
    /\ LET image_ids == ImageIds(images_to_delete) IN
       /\ batches' = Append(batches, image_ids)
       /\ images' = SelectSeq2(images, SeqRange(image_ids))
    /\ ppc' = "done"
    /\ UNCHANGED <<repo_exists, keep_count, apiFail, sorted_images, images_to_delete,
                   raised, images0,
                   rvars, tvars, gvars>>

\* Line 101 raises: caught by line 110.
BatchDeleteImageFails ==
    /\ ppc = "batch_delete"
    /\ batches' = Append(batches, ImageIds(images_to_delete))
    /\ apiFail' = "batch_delete_image"
    /\ ppc' = "done"
    /\ UNCHANGED <<repo_exists, images, keep_count, sorted_images, images_to_delete,
                   raised, images0,
                   rvars, tvars, gvars>>

\* ============================================================ test_agent

\* The test_cases list (lines 94-105).
NumTestCases == 10
TestCases == 1..NumTestCases

\* The statuses get_agent_runtime may report.
Statuses == {"CREATING", "UPDATING", "READY", "FAILED", "DELETING"}

\* What invoke_agent_runtime may return: a dict with a 'response' streaming
\* body, a dict with a 'payload', or a dict with neither.
Response(kind, body) == [kind |-> kind, body |-> body]
NoResponse == Response("none", "none")
Responses ==
    {Response("response", b) :
        b \in {"json_content", "json_message", "json_text", "json_dict", "json_value",
               "plain_text", "not_utf8", "read_error"}}
    \cup {Response("payload", b) : b \in {"str", "bytes", "bytes_not_utf8"}}
    \cup {Response("status", "none")}

\* Lines 59-63: scan the listing for the first runtime with the given name.
FindRuntime_First(agents, name) ==
    IF agents = <<>> THEN NoneRec ELSE Head(agents)

RECURSIVE FindRuntime(_, _)
FindRuntime(agents, name) ==
    IF agents = <<>> THEN NoneRec
    ELSE IF Head(agents).agentRuntimeName = name THEN Head(agents)
    ELSE FindRuntime(Tail(agents), name)

\* Line 83: the READY check.
StatusReady_NotFailed(st) == st # "FAILED"

StatusReady(st) == st = "READY"

\* Lines 128-162: whether handling the response of one case completes
\* ("passed") or raises an exception that line 164 catches ("failed").
Classify_StatusOnlyFails(resp) ==
    IF resp.kind = "response"
    THEN IF resp.body \in {"not_utf8", "read_error"} THEN "failed" ELSE "passed"
    ELSE IF resp.kind = "payload"
    THEN IF resp.body = "bytes_not_utf8" THEN "failed" ELSE "passed"
    ELSE "failed"

Classify(resp) ==
    IF resp.kind = "response"
    THEN \* read().decode('utf-8') raises on a broken stream or on bytes that
         \* are not UTF-8; a JSONDecodeError is caught at line 148 and any
         \* JSON value is logged.
         IF resp.body \in {"not_utf8", "read_error"} THEN "failed" ELSE "passed"
    ELSE IF resp.kind = "payload"
    THEN IF resp.body = "bytes_not_utf8" THEN "failed" ELSE "passed"
    ELSE "passed"

\* Lines 128-166: the state a case ends in once its response is handled:
\* the body parsed as JSON, the response displayed some other way (plain
\* text after a JSONDecodeError, the payload, the bare status), or an
\* exception.
PathOf_NoFallback(resp) ==
    IF resp.kind = "response" /\ resp.body \in {"not_utf8", "read_error"} THEN "FAILED"
    ELSE IF resp.kind = "payload" /\ resp.body = "bytes_not_utf8" THEN "FAILED"
    ELSE IF resp.kind = "response" THEN "PARSED_OK"
    ELSE "INVOKED"

PathOf(resp) ==
    IF resp.kind = "response"
    THEN IF resp.body \in {"not_utf8", "read_error"} THEN "FAILED"
         ELSE IF resp.body = "plain_text" THEN "PARSED_FALLBACK"
         ELSE "PARSED_OK"
    ELSE IF resp.kind = "payload"
    THEN IF resp.body = "bytes_not_utf8" THEN "FAILED" ELSE "PARSED_FALLBACK"
    ELSE "PARSED_FALLBACK"

\* Lines 115 and 164-166: where the loop goes after case i.
AfterCase_StopOnFailure(i, out) ==
    IF out = "failed" \/ i = NumTestCases THEN "report" ELSE "invoke"

AfterCase(i, out) == IF i < NumTestCases THEN "invoke" ELSE "report"

\* Lines 113 and 164-166: all_passed after a case.
AllPassedAfter_LastOnly(passed, out) == out # "failed"

AllPassedAfter(passed, out) == IF out = "failed" THEN FALSE ELSE passed

\* A control-plane call of test_agent: the operation, the id it was keyed by
\* (0 for the listing) and whether it returned.
TestCall(op, key, ok) == [op |-> op, key |-> key, ok |-> ok]

\* test_agent returns False before the test loop.
ReturnFalse ==
    /\ test_result' = "False"
    /\ tpc' = "done"

\* Lines 55-72: the listing is returned and scanned for agent_name.
ListAgentRuntimes ==
    /\ tpc = "list"
    /\ \E l \in Listings(runtimes) :
          LET found == FindRuntime(l, test_agent_name) IN
          /\ test_listing' = l
          /\ tcalls' = Append(tcalls, TestCall("list_agent_runtimes", 0, TRUE))
          /\ IF found = NoneRec
             THEN /\ ReturnFalse
                  /\ UNCHANGED <<agent_arn, agent_id>>
             ELSE /\ agent_arn' = found.agentRuntimeArn
                  /\ agent_id' = found.agentRuntimeId
                  /\ tpc' = "status"
                  /\ UNCHANGED test_result
    /\ UNCHANGED <<test_agent_name, status, test_i, last_response, case_outcome, case_state,
                   invoked,
                   all_passed,
                   rvars, pvars, gvars>>

\* Lines 73-75: list_agent_runtimes raises.
ListAgentRuntimesFails ==
    /\ tpc = "list"
    /\ tcalls' = Append(tcalls, TestCall("list_agent_runtimes", 0, FALSE))
    /\ ReturnFalse
    /\ UNCHANGED <<test_agent_name, test_listing, agent_arn, agent_id, status, test_i, last_response,
                   case_outcome, case_state, invoked, all_passed,
                   rvars, pvars, gvars>>

\* Lines 78-85 and 109: the status is read once; the loop starts only on READY.
GetAgentRuntime ==
    /\ tpc = "status"
    /\ tcalls' = Append(tcalls, TestCall("get_agent_runtime", agent_id, TRUE))
    /\ \E st \in Statuses :
          /\ status' = st
          /\ IF StatusReady(st)
             THEN /\ tpc' = "invoke"
                  /\ UNCHANGED test_result
             ELSE ReturnFalse
    /\ UNCHANGED <<test_agent_name, test_listing, agent_arn, agent_id, test_i, last_response,
                   case_outcome, case_state, invoked, all_passed,
                   rvars, pvars, gvars>>

\* Lines 86-88: get_agent_runtime raises.
GetAgentRuntimeFails ==
    /\ tpc = "status"
    /\ tcalls' = Append(tcalls, TestCall("get_agent_runtime", agent_id, FALSE))
    /\ ReturnFalse
    /\ UNCHANGED <<test_agent_name, test_listing, agent_arn, agent_id, status, test_i, last_response,
                   case_outcome, case_state, invoked, all_passed,
                   rvars, pvars, gvars>>

\* The case is logged and the loop moves on.
CaseDone(out, st) ==
    /\ case_outcome' = [case_outcome EXCEPT ![test_i] = out]
    /\ case_state' = [case_state EXCEPT ![test_i] = st]
    /\ all_passed' = AllPassedAfter(all_passed, out)
    /\ tpc' = AfterCase(test_i, out)
    /\ test_i' = test_i + 1

\* Lines 122-126: the agent is invoked with the prompt of case test_i.
InvokeAgentRuntime ==
    /\ tpc = "invoke"
    /\ invoked' = [invoked EXCEPT ![test_i] = @ + 1]
    /\ \E r \in Responses : last_response' = r
    /\ case_state' = [case_state EXCEPT ![test_i] = "INVOKED"]
    /\ tpc' = "parse"
    /\ UNCHANGED <<test_agent_name, test_listing, agent_arn, agent_id, status, test_i, case_outcome,
                   all_passed, test_result, tcalls,
                   rvars, pvars, gvars>>

\* Lines 122-126 and 164-166: invoke_agent_runtime raises.
InvokeAgentRuntimeFails ==
    /\ tpc = "invoke"
    /\ invoked' = [invoked EXCEPT ![test_i] = @ + 1]
    /\ last_response' = NoResponse
    /\ CaseDone("failed", "FAILED")
    /\ UNCHANGED <<test_agent_name, test_listing, agent_arn, agent_id, status, test_result, tcalls,
                   rvars, pvars, gvars>>

\* Lines 128-166: the response is decoded and displayed.
ParseResponse ==
    /\ tpc = "parse"
    /\ CaseDone(Classify(last_response), PathOf(last_response))
    /\ UNCHANGED <<test_agent_name, test_listing, agent_arn, agent_id, status, last_response, invoked,
                   test_result, tcalls,
                   rvars, pvars, gvars>>

\* Lines 168-175: the overall result.
Report ==
    /\ tpc = "report"
    /\ test_result' = IF all_passed THEN "True" ELSE "False"
    /\ tpc' = "done"
    /\ UNCHANGED <<test_agent_name, test_listing, agent_arn, agent_id, status, test_i, last_response,
                   case_outcome, case_state, invoked, all_passed, tcalls,
                   rvars, pvars, gvars>>

\* ============================================================ create_guardrail

\* Line 31.
guardrail_name == "AgentCore-Minimal-Guardrail"
OtherGuardrailName == "other-guardrail"

Guardrail(id, name) == [id |-> id, name |-> name]

\* What list_guardrails may return: the guardrails that exist, or (a stale
\* or truncated listing) some of them, in any order.
GuardrailListings(gs) == UNION {Orderings(sub) : sub \in SUBSET gs}

\* Lines 36-39: the id of the first listed guardrail with the name.
FindGuardrail_Never(listed, name) == Missing

RECURSIVE FindGuardrail(_, _)
FindGuardrail(listed, name) ==
    IF listed = <<>> THEN Missing
    ELSE IF Head(listed).name = name THEN Head(listed).id
    ELSE FindGuardrail(Tail(listed), name)

GuardrailCall(op, ok) == [op |-> op, ok |-> ok]

\* The exception leaves create_minimal_guardrail (lines 88-90 for a
\* ClientError, which is logged and raised again).
GuardrailRaise ==
    /\ goutcome' = "raised"
    /\ gpc' = "done"

\* create_minimal_guardrail is called (line 98).
StartGuardrail ==
    /\ gpc \in {"idle", "done"}
    /\ gruns < MaxCalls
    /\ gruns' = gruns + 1
    /\ gpc' = "list"
    /\ guardrail_listing' = <<>>
    /\ guardrail_id' = Missing
    /\ gcalls' = <<>>
    /\ goutcome' = "none"
    /\ UNCHANGED <<guardrails, nextGuardrailId, guardrail_id_file, returned_ids, stale,
                   rvars, pvars, tvars>>

\* Lines 35-39: the listing is scanned; a guardrail with the name ends the
\* call with its id.
ListGuardrails ==
    /\ gpc = "list"
    /\ \E l \in GuardrailListings(guardrails) :
          LET found == FindGuardrail(l, guardrail_name) IN
          /\ guardrail_listing' = l
          /\ stale' = (stale \/ Len(l) # Cardinality(guardrails))
          /\ gcalls' = Append(gcalls, GuardrailCall("list_guardrails", TRUE))
          /\ IF found # Missing
             THEN /\ guardrail_id' = found
                  /\ returned_ids' = returned_ids \cup {found}
                  /\ goutcome' = "returned"
                  /\ gpc' = "done"
             ELSE /\ gpc' = "create"
                  /\ UNCHANGED <<guardrail_id, returned_ids, goutcome>>
    /\ UNCHANGED <<guardrails, nextGuardrailId, guardrail_id_file, gruns,
                   rvars, pvars, tvars>>

\* Line 35 raises.
ListGuardrailsFails ==
    /\ gpc = "list"
    /\ gcalls' = Append(gcalls, GuardrailCall("list_guardrails", FALSE))
    /\ GuardrailRaise
    /\ UNCHANGED <<guardrails, nextGuardrailId, guardrail_listing, guardrail_id,
                   guardrail_id_file, returned_ids, stale, gruns,
                   rvars, pvars, tvars>>

\* Lines 42-69: the guardrail is created and its id kept.
CreateGuardrail ==
    /\ gpc = "create"
    /\ guardrails' = guardrails \cup {Guardrail(nextGuardrailId, guardrail_name)}
    /\ nextGuardrailId' = nextGuardrailId + 1
    /\ guardrail_id' = nextGuardrailId
    /\ gcalls' = Append(gcalls, GuardrailCall("create_guardrail", TRUE))
    /\ gpc' = "version"
    /\ UNCHANGED <<guardrail_listing, guardrail_id_file, goutcome, returned_ids, stale, gruns,
                   rvars, pvars, tvars>>

\* Line 42 raises.
CreateGuardrailFails ==
    /\ gpc = "create"
    /\ gcalls' = Append(gcalls, GuardrailCall("create_guardrail", FALSE))
    /\ GuardrailRaise
    /\ UNCHANGED <<guardrails, nextGuardrailId, guardrail_listing, guardrail_id,
                   guardrail_id_file, returned_ids, stale, gruns,
                   rvars, pvars, tvars>>

\* Lines 72-80: version 1 is created; a ClientError is logged and ignored.
CreateGuardrailVersion ==
    /\ gpc = "version"
    /\ \E ok \in BOOLEAN :
          gcalls' = Append(gcalls, GuardrailCall("create_guardrail_version", ok))
    /\ gpc' = "write"
    /\ UNCHANGED <<guardrails, nextGuardrailId, guardrail_listing, guardrail_id,
                   guardrail_id_file, goutcome, returned_ids, stale, gruns,
                   rvars, pvars, tvars>>

\* Line 73 raises something that is no ClientError: it leaves
\* create_minimal_guardrail, the guardrail having been created.
CreateGuardrailVersionRaises ==
    /\ gpc = "version"
    /\ gcalls' = Append(gcalls, GuardrailCall("create_guardrail_version", FALSE))
    /\ GuardrailRaise
    /\ UNCHANGED <<guardrails, nextGuardrailId, guardrail_listing, guardrail_id,
                   guardrail_id_file, returned_ids, stale, gruns,
                   rvars, pvars, tvars>>

\* Lines 83-86: guardrail_id.txt is written and the id returned.
WriteGuardrailId ==
    /\ gpc = "write"
    /\ guardrail_id_file' = guardrail_id
    /\ returned_ids' = returned_ids \cup {guardrail_id}
    /\ goutcome' = "returned"
    /\ gpc' = "done"
    /\ UNCHANGED <<guardrails, nextGuardrailId, guardrail_listing, guardrail_id, gcalls,
                   stale, gruns,
                   rvars, pvars, tvars>>

\* ============================================================ specifications

DeployInit ==
    /\ runtimes = {}
    /\ nextId = 1
    /\ deployment_info = NoFile
    /\ pc = [p \in Jobs |-> "idle"]
    /\ args = [p \in Jobs |-> NoneRec]
    /\ existing_agents = [p \in Jobs |-> <<>>]
    /\ existing_agent = [p \in Jobs |-> NoneRec]
    /\ agent_exists = [p \in Jobs |-> FALSE]
    /\ response = [p \in Jobs |-> NoneRec]
    /\ f = [p \in Jobs |-> <<>>]
    /\ outcome = [p \in Jobs |-> NoOutcome]
    /\ result = [p \in Jobs |-> NoneRec]
    /\ calls = [p \in Jobs |-> <<>>]
    /\ recordAtStart = [p \in Jobs |-> NoFile]
    /\ prev = NoRun

\* The image lists of at most MaxImages images: each image with or without a
\* digest and with or without a push time.
ImageLists ==
    UNION {[1..n -> [d : BOOLEAN, t : (1..NumTimes) \cup {Missing}]] : n \in 0..MaxImages}

MakeImages(spec) ==
    [i \in DOMAIN spec |-> Image(i, IF spec[i].d THEN i ELSE Missing, spec[i].t)]

\* The repository of the scenario: twelve images, nine of them pushed at
\* different times and three without a push time.
ScenarioImages ==
    [i \in 1..(DefaultKeepCount + 3) |->
        Image(i, i, IF i % 4 = 2 THEN Missing ELSE i)]

CleanupIdle ==
    /\ ppc = "start"
    /\ apiFail = None
    /\ sorted_images = [status |-> "unset", list |-> <<>>]
    /\ images_to_delete = <<>>
    /\ batches = <<>>
    /\ raised = FALSE

CleanupInit ==
    /\ CleanupIdle
    /\ \/ /\ repo_exists = TRUE
          /\ \/ /\ images \in {MakeImages(sp) : sp \in ImageLists}
                /\ keep_count \in (0 - MaxKeep)..MaxKeep
             \/ /\ images = ScenarioImages
                /\ keep_count = DefaultKeepCount
       \/ /\ repo_exists = FALSE
          /\ images = <<>>
          /\ keep_count \in (0 - MaxKeep)..MaxKeep
    /\ images0 = images

\* The pruner at rest while the deploy jobs are observed.
CleanupAtRest ==
    /\ CleanupIdle
    /\ repo_exists = FALSE
    /\ images = <<>>
    /\ keep_count = DefaultKeepCount
    /\ images0 = <<>>

\* test_agent before it is called with the given name.
ValidateIdle(name) ==
    /\ tpc = "list"
    /\ test_agent_name = name
    /\ test_listing = <<>>
    /\ agent_arn = Missing
    /\ agent_id = Missing
    /\ status = "unset"
    /\ test_i = 1
    /\ last_response = NoResponse
    /\ case_outcome = [i \in TestCases |-> "pending"]
    /\ case_state = [i \in TestCases |-> "PENDING"]
    /\ invoked = [i \in TestCases |-> 0]
    /\ all_passed = TRUE
    /\ test_result = "unset"
    /\ tcalls = <<>>

\* The harness at rest while the other scripts are observed.
ValidateAtRest == ValidateIdle(1)

\* The runtimes earlier deployments left: one per name of the given set, the
\* ids being assigned in the order the names were deployed.
Deployed(names) ==
    {[agentRuntimeId |-> NumNames + 1 - n, agentRuntimeName |-> n, containerUri |-> 1] :
        n \in names}

\* test_agent is called with any name, against any set of deployed runtimes.
ValidateInit ==
    /\ \E name \in Names : ValidateIdle(name)
    /\ \E names \in SUBSET Names :
          /\ runtimes = Deployed(names)
          /\ nextId = NumNames + 1
    /\ deployment_info = NoFile
    /\ pc = [p \in Jobs |-> "idle"]
    /\ args = [p \in Jobs |-> NoneRec]
    /\ existing_agents = [p \in Jobs |-> <<>>]
    /\ existing_agent = [p \in Jobs |-> NoneRec]
    /\ agent_exists = [p \in Jobs |-> FALSE]
    /\ response = [p \in Jobs |-> NoneRec]
    /\ f = [p \in Jobs |-> <<>>]
    /\ outcome = [p \in Jobs |-> NoOutcome]
    /\ result = [p \in Jobs |-> NoneRec]
    /\ calls = [p \in Jobs |-> <<>>]
    /\ recordAtStart = [p \in Jobs |-> NoFile]
    /\ prev = NoRun

\* create_minimal_guardrail before its first call.
GuardrailIdle ==
    /\ nextGuardrailId = 3
    /\ gpc = "idle"
    /\ guardrail_listing = <<>>
    /\ guardrail_id = Missing
    /\ guardrail_id_file = Missing
    /\ gcalls = <<>>
    /\ goutcome = "none"
    /\ returned_ids = {}
    /\ stale = FALSE
    /\ gruns = 0

\* The account may already hold a guardrail of another name, and one with
\* the name.
GuardrailInit ==
    /\ GuardrailIdle
    /\ guardrails \in SUBSET {Guardrail(1, OtherGuardrailName), Guardrail(2, guardrail_name)}

\* The guardrail script at rest while the other scripts are observed.
GuardrailAtRest == GuardrailIdle /\ guardrails = {}

GuardrailNext ==
    \/ StartGuardrail
    \/ ListGuardrails
    \/ ListGuardrailsFails
    \/ CreateGuardrail
    \/ CreateGuardrailFails
    \/ CreateGuardrailVersion
    \/ CreateGuardrailVersionRaises
    \/ WriteGuardrailId

DeployNext == \E p \in SeqJobs : DeployStep(p)

ValidateNext ==
    \/ ListAgentRuntimes
    \/ ListAgentRuntimesFails
    \/ GetAgentRuntime
    \/ GetAgentRuntimeFails
    \/ InvokeAgentRuntime
    \/ InvokeAgentRuntimeFails
    \/ ParseResponse
    \/ Report

CleanupNext ==
    \/ DescribeRepositories
    \/ RepositoryNotFound
    \/ DescribeRepositoriesFails
    \/ DescribeImages
    \/ DescribeImagesFails
    \/ BatchDeleteImage
    \/ BatchDeleteImageFails

Init == DeployInit /\ CleanupAtRest /\ ValidateAtRest /\ GuardrailAtRest
Next == DeployNext
Spec == Init /\ [][Next]_vars

InitPrune == DeployInit /\ CleanupInit /\ ValidateAtRest /\ GuardrailAtRest
NextPrune == CleanupNext
SpecPrune == InitPrune /\ [][NextPrune]_vars

InitValidate == ValidateInit /\ CleanupAtRest /\ GuardrailAtRest
NextValidate == ValidateNext
SpecValidate == InitValidate /\ [][NextValidate]_vars

\* Two deploy jobs started side by side (two pipeline runs, or two
\* operators), each running deploy_agent once, against the runtimes earlier
\* deployments left.
ConcurrentInit ==
    /\ \E names \in SUBSET Names :
          /\ runtimes = Deployed(names)
          /\ nextId = NumNames + 1
    /\ deployment_info = NoFile
    /\ pc = [p \in Jobs |-> "idle"]
    /\ args = [p \in Jobs |-> NoneRec]
    /\ existing_agents = [p \in Jobs |-> <<>>]
    /\ existing_agent = [p \in Jobs |-> NoneRec]
    /\ agent_exists = [p \in Jobs |-> FALSE]
    /\ response = [p \in Jobs |-> NoneRec]
    /\ f = [p \in Jobs |-> <<>>]
    /\ outcome = [p \in Jobs |-> NoOutcome]
    /\ result = [p \in Jobs |-> NoneRec]
    /\ calls = [p \in Jobs |-> <<>>]
    /\ recordAtStart = [p \in Jobs |-> NoFile]
    /\ prev = NoRun

\* Each of the two jobs is started once.
StartOnce(p) == pc[p] = "idle" /\ Start(p)

ConcurrentStep(p) ==
    \/ StartOnce(p)
    \/ ReadRole(p)
    \/ ListAgents(p)
    \/ ListAgentsFails(p)
    \/ UpdateRuntime(p)
    \/ UpdateRuntimeFails(p)
    \/ CreateRuntime(p)
    \/ CreateRuntimeClientError(p)
    \/ CreateRuntimeOtherError(p)
    \/ OpenFile(p)
    \/ \E k \in 1..3 : WriteLine(p, k)
    \/ CloseAndReturn(p)
    \/ Interrupt(p)

InitConcurrent == ConcurrentInit /\ CleanupAtRest /\ ValidateAtRest /\ GuardrailAtRest
NextConcurrent == \E p \in Jobs : ConcurrentStep(p)
SpecConcurrent == InitConcurrent /\ [][NextConcurrent]_vars

InitGuardrail == DeployInit /\ CleanupAtRest /\ ValidateAtRest /\ GuardrailInit
NextGuardrail == GuardrailNext
SpecGuardrail == InitGuardrail /\ [][NextGuardrail]_vars

\* ============================================================ properties

\* Whether the listing the run received showed the run's target name.
ListedName(p) ==
    \E j \in DOMAIN existing_agents[p] :
        existing_agents[p][j].agentRuntimeName = args[p].agent_name

Started(p) == pc[p] # "idle"

Ops(p) == {calls[p][i].op : i \in DOMAIN calls[p]}

OneRuntimePerName ==
    \A r1, r2 \in runtimes : r1.agentRuntimeName = r2.agentRuntimeName => r1 = r2

\* C1: at most one runtime exists per name, and no run issues a create call
\* for a name that the listing it received showed as present.
C1_OneRuntimePerName ==
    /\ OneRuntimePerName
    /\ \A p \in Jobs : (Started(p) /\ ListedName(p)) => "create" \notin Ops(p)

\* A run whose listing showed the name has ended, having issued an update,
\* while every name has its runtime.
C1_Witness ==
    \E p \in Jobs :
        /\ pc[p] = "done" /\ ListedName(p) /\ "update" \in Ops(p)
        /\ Cardinality(runtimes) = NumNames

\* C2: when the listing contains the target name and auto_update is false,
\* the run ends with Conflict, has issued no create and no update call, has
\* returned nothing and has left deployment_info.txt as it found it.
C2_ConflictNoMutation ==
    \A p \in Jobs :
        (Started(p) /\ ListedName(p) /\ ~args[p].auto_update) =>
            /\ pc[p] = "done"
            /\ outcome[p].kind = "Conflict"
            /\ Ops(p) = {"list"}
            /\ result[p] = NoneRec
            /\ deployment_info = recordAtStart[p]

C2_Witness ==
    \E p \in Jobs :
        /\ pc[p] = "done" /\ ListedName(p) /\ ~args[p].auto_update
        /\ outcome[p].kind = "Conflict"
        /\ deployment_info.exists /\ Len(deployment_info.lines) = 3

\* Whether the run's create call was rejected with the naming conflict.
CreateConflicted(p) ==
    \E i \in DOMAIN calls[p] :
        calls[p][i].op = "create" /\ calls[p][i].err = "ConflictException"

\* C3: when the name is absent from the listing, the create call fails with
\* the naming conflict and auto_update is true, the run ends with
\* AmbiguousConflict: the create call is its last call (no update follows)
\* and no record is written or returned.
C3_AmbiguousConflict ==
    \A p \in Jobs :
        (Started(p) /\ ~ListedName(p) /\ CreateConflicted(p) /\ args[p].auto_update) =>
            /\ pc[p] = "done"
            /\ outcome[p].kind = "AmbiguousConflict"
            /\ "update" \notin Ops(p)
            /\ calls[p][Len(calls[p])].op = "create"
            /\ result[p] = NoneRec
            /\ deployment_info = recordAtStart[p]

C3_Witness ==
    \E p \in Jobs :
        /\ pc[p] = "done" /\ ~ListedName(p) /\ CreateConflicted(p) /\ args[p].auto_update
        /\ outcome[p].kind = "AmbiguousConflict"
        /\ calls[p][1].ok

\* Whether a remote call of the run failed for a reason other than the
\* naming conflict of create.
OtherFailure(p) ==
    \E i \in DOMAIN calls[p] : ~calls[p][i].ok /\ calls[p][i].err # "ConflictException"

\* The run of job p is the second of two runs in succession with the same
\* name and container URI and auto_update true, the first having succeeded.
SecondOfPair(p) ==
    /\ pc[p] = "done"
    /\ prev.agent_name # 0
    /\ prev.kind = "ok"
    /\ prev.auto_update /\ args[p].auto_update
    /\ prev.agent_name = args[p].agent_name
    /\ prev.container_uri = args[p].container_uri

\* C4 as stated: the second of two such runs also produces a record, with
\* the arn and id of the first, whatever its listing showed (runs that lack
\* the role file, are interrupted, or meet a failing service aside).
C4_AsStated ==
    \A p \in SeqJobs :
        (/\ SecondOfPair(p)
         /\ ~RoleMissing(args[p].role_file)
         /\ outcome[p].kind # "Interrupted"
         /\ ~OtherFailure(p)) =>
            /\ outcome[p].kind = "ok"
            /\ result[p].agent_arn = prev.result.agent_arn
            /\ result[p].agent_id = prev.result.agent_id
            /\ OneRuntimePerName

\* C4 (amended): of two such runs, the second produces a record only if its
\* listing showed the runtime, and the record then has the arn and id of
\* the first; when its listing did not show the runtime, its create call
\* is rejected, the run fails (with AmbiguousConflict when the rejection is
\* the naming conflict) and deployment_info.txt keeps the record of the
\* first run.  In neither case does a name get a second runtime.
C4_IdempotentWhenListed ==
    /\ OneRuntimePerName
    /\ \A p \in SeqJobs :
         SecondOfPair(p) =>
            /\ outcome[p].kind = "ok" =>
                  /\ ListedName(p)
                  /\ result[p].agent_arn = prev.result.agent_arn
                  /\ result[p].agent_id = prev.result.agent_id
                  /\ deployment_info = File(RecordLines(result[p]))
            /\ (~RoleMissing(args[p].role_file) /\ ~ListedName(p)) =>
                  /\ outcome[p].kind \in {"AmbiguousConflict", "RemoteFailure"}
                  /\ CreateConflicted(p) => outcome[p].kind = "AmbiguousConflict"
                  /\ "create" \in Ops(p)
                  /\ result[p] = NoneRec
                  /\ deployment_info = File(RecordLines(prev.result))

\* Both cases: a second run that succeeded by update while another runtime
\* exists, after a first run that succeeded.
C4_Witness ==
    \E p \in SeqJobs :
        /\ SecondOfPair(p) /\ outcome[p].kind = "ok" /\ ListedName(p)
        /\ Len(existing_agents[p]) = 2
        /\ existing_agents[p][2].agentRuntimeName = args[p].agent_name

\* C5 as stated: a failed remote call, the list call included and the
\* naming conflict of create excluded, is the last call of the run, and the
\* run ends fatally with that error and writes no record.
C5_AsStated ==
    \A p \in Jobs : \A i \in DOMAIN calls[p] :
        (~calls[p][i].ok /\ calls[p][i].err # "ConflictException") =>
            /\ i = Len(calls[p])
            /\ pc[p] = "done"
            /\ outcome[p] = [kind |-> "RemoteFailure", err |-> calls[p][i].err]
            /\ result[p] = NoneRec
            /\ deployment_info = recordAtStart[p]

\* C5 (amended): a failed create or update call, the naming conflict of
\* create excluded, is the last call of the run, and the run ends fatally
\* with that error and writes no record.  A failed list call is not fatal:
\* the run goes on as if the name were absent and issues a create call.
C5_MutatingFailureFatal ==
    \A p \in Jobs : \A i \in DOMAIN calls[p] :
        (~calls[p][i].ok /\ calls[p][i].err # "ConflictException") =>
            IF calls[p][i].op = "list"
            THEN /\ ~agent_exists[p]
                 /\ \/ pc[p] = "create"
                    \/ (Len(calls[p]) > i /\ calls[p][i + 1].op = "create")
            ELSE /\ i = Len(calls[p])
                 /\ pc[p] = "done"
                 /\ outcome[p] = [kind |-> "RemoteFailure", err |-> calls[p][i].err]
                 /\ result[p] = NoneRec
                 /\ deployment_info = recordAtStart[p]

\* A create call failed with a service error other than the conflict, under
\* auto_update, after the list call had failed too.
C5_Witness ==
    \E p \in Jobs :
        /\ pc[p] = "done" /\ args[p].auto_update
        /\ Len(calls[p]) = 2
        /\ ~calls[p][1].ok
        /\ calls[p][2] = Call("create", args[p].agent_name, FALSE, "ClientError")
        /\ deployment_info.exists

\* Whether the file holds a complete record: the three keys, in order.
CompleteRecord(file) ==
    /\ Len(file.lines) = 3
    /\ file.lines[1][1] = "agent_arn"
    /\ file.lines[2][1] = "agent_id"
    /\ file.lines[3][1] = "ecr_uri"

\* C6: at every moment deployment_info.txt holds a complete record (the
\* three keys agent_arn, agent_id, ecr_uri) or no record at all.
C6_AtomicRecord ==
    (deployment_info.exists /\ deployment_info.lines # <<>>) => CompleteRecord(deployment_info)

\* C7: when role_arn.txt is absent the run ends with the precondition
\* failure, having issued no remote call and written and returned nothing.
C7_NoRoleNoCall ==
    \A p \in Jobs :
        (Started(p) /\ args[p].role_file = None) =>
            /\ pc[p] \in {"read_role", "done"}
            /\ calls[p] = <<>>
            /\ result[p] = NoneRec
            /\ deployment_info = recordAtStart[p]
            /\ pc[p] = "done" => outcome[p].kind = "Precondition"

C7_Witness ==
    \E p \in Jobs :
        /\ pc[p] = "done" /\ args[p].role_file = None
        /\ outcome[p].kind = "Precondition"
        /\ runtimes # {}

\* Whether the run's last call is a create call that succeeded.
Created(p) ==
    /\ calls[p] # <<>>
    /\ calls[p][Len(calls[p])].op = "create"
    /\ calls[p][Len(calls[p])].ok

\* C8: a run whose listing lacked the name and whose create call succeeded
\* returns, and has stored in deployment_info.txt, the arn and id of the
\* runtime the control plane created for the name, with the container URI
\* it was given.
C8_CreateRecord ==
    \A p \in SeqJobs :
        (pc[p] = "done" /\ outcome[p].kind = "ok" /\ Created(p)) =>
            /\ ~ListedName(p)
            /\ result[p].ecr_uri = args[p].container_uri
            /\ \E r \in runtimes :
                  /\ r.agentRuntimeName = args[p].agent_name
                  /\ r.containerUri = args[p].container_uri
                  /\ result[p].agent_id = r.agentRuntimeId
                  /\ result[p].agent_arn = ArnOf(r.agentRuntimeId)
            /\ result[p].agent_id = response[p].agentRuntimeId
            /\ result[p].agent_arn = response[p].agentRuntimeArn
            /\ deployment_info = File(<<<<"agent_arn", result[p].agent_arn>>,
                                        <<"agent_id", result[p].agent_id>>,
                                        <<"ecr_uri", args[p].container_uri>>>>)

\* A create that succeeded as the second runtime, over an older record.
C8_Witness ==
    \E p \in SeqJobs :
        /\ pc[p] = "done" /\ outcome[p].kind = "ok" /\ Created(p)
        /\ result[p].agent_id = 2
        /\ recordAtStart[p].exists

\* ---- the pruner

\* The positions (in the listing the run started with) of the images the
\* registry lost and of those it kept.
DeletedImages == {images0[i].n : i \in DOMAIN images0} \ {images[i].n : i \in DOMAIN images}
KeptImages == {images[i].n : i \in DOMAIN images}

\* The push time of the image at position n, an image without one counting
\* as older than every dated image.
PushedAt(n) == IF images0[n].imagePushedAt = Missing THEN 0 ELSE images0[n].imagePushedAt

Undated == {n \in DOMAIN images0 : images0[n].imagePushedAt = Missing}

\* A run that ended with the repository present, no ECR call failing and
\* every image carrying a digest.
CleanRun ==
    /\ ppc = "done"
    /\ repo_exists
    /\ apiFail = None
    /\ \A i \in DOMAIN images0 : images0[i].imageDigest # Missing

\* C9: for keep_count >= 0 the run deletes exactly max(0, len(images) -
\* keep_count) images, and no deleted image was pushed later than a kept one
\* (the kept images are the keep_count newest).
C9_DeletesAllButNewest ==
    (CleanRun /\ keep_count >= 0) =>
        /\ Cardinality(DeletedImages) =
              (IF Len(images0) > keep_count THEN Len(images0) - keep_count ELSE 0)
        /\ \A k \in KeptImages, d \in DeletedImages : PushedAt(k) >= PushedAt(d)

\* C10: an image without a push time is ordered as older than every dated
\* image, so none is kept while a dated image is deleted; and of the twelve
\* images of the scenario, three of them undated, with keep_count = 9 the
\* three undated images are the ones deleted and nine are kept.
C10_UndatedDeletedFirst ==
    (CleanRun /\ keep_count >= 0) =>
        /\ \A k \in KeptImages, d \in DeletedImages : ~(k \in Undated /\ d \notin Undated)
        /\ (images0 = ScenarioImages /\ keep_count = DefaultKeepCount) =>
              /\ DeletedImages = Undated
              /\ Cardinality(DeletedImages) = 3
              /\ Cardinality(KeptImages) = DefaultKeepCount

\* The positions of the images in the deletion set and of those outside it.
DeletionSet == {images_to_delete[i].n : i \in DOMAIN images_to_delete}
Retained == DOMAIN images0 \ DeletionSet

\* C11 as stated: with a negative keep_count and a non-empty image list
\* that sorted() could order, every image is in the deletion set.
C11_AsStated ==
    (keep_count < 0 /\ images0 # <<>> /\ sorted_images.status = "ok") =>
        DeletionSet = DOMAIN images0

\* C11 (amended): with keep_count = -k < 0 and a non-empty image list, the
\* deletion set holds the min(k, len(images)) oldest images and the other
\* images are kept, so every image is in it only when k >= len(images);
\* when sorted() raises (dated and undated images mixed) it is empty.
C11_NegativeKeepDeletesOldestK ==
    (keep_count < 0 /\ images0 # <<>> /\ sorted_images.status # "unset") =>
        LET k == 0 - keep_count
            m == IF k > Len(images0) THEN Len(images0) ELSE k
        IN IF sorted_images.status = "TypeError"
           THEN images_to_delete = <<>> /\ images = images0
           ELSE /\ Cardinality(DeletionSet) = m
                /\ Len(images_to_delete) = m
                /\ \A r \in Retained, d \in DeletionSet : PushedAt(r) >= PushedAt(d)
                /\ Retained \subseteq KeptImages

\* keep_count = -1 on three images: one image deleted, two kept.
C11_Witness ==
    /\ ppc = "done" /\ apiFail = None
    /\ keep_count = 0 - 1
    /\ Len(images0) = 3
    /\ Cardinality(DeletedImages) = 1
    /\ Cardinality(KeptImages) = 2

\* C12: when keep_count is at least the number of images, the deletion set
\* is empty, no batch_delete_image call is issued and every image stays.
C12_KeepAllWhenFewImages ==
    (keep_count >= Len(images0)) =>
        /\ images_to_delete = <<>>
        /\ batches = <<>>
        /\ apiFail # "batch_delete_image"
        /\ ppc # "batch_delete"
        /\ images = images0

\* A finished run over a repository holding exactly keep_count dated images.
C12_Witness ==
    /\ ppc = "done" /\ repo_exists /\ apiFail = None
    /\ sorted_images.status = "ok"
    /\ Len(images0) = 2 /\ keep_count = 2
    /\ \A i \in DOMAIN images0 : images0[i].imageDigest # Missing

\* C13 as stated: whenever the deletion set is non-empty, the finished run
\* has issued exactly one batch_delete_image call, carrying the digests of
\* the deletion-set images that have one.
C13_AsStated ==
    (ppc = "done" /\ apiFail = None /\ images_to_delete # <<>>) =>
        /\ Len(batches) = 1
        /\ SeqRange(batches[1]) =
              {images_to_delete[i].imageDigest : i \in DOMAIN images_to_delete} \ {Missing}

\* C13 (amended): images without a digest never make the run raise and are
\* left out of the batch; a finished run has issued one batch_delete_image
\* call exactly when some deletion-set image has a digest, its identifiers
\* being exactly those digests, and no call when none has one.
C13_BatchOnlyDigests ==
    LET digests == {images_to_delete[i].imageDigest : i \in DOMAIN images_to_delete} \ {Missing}
    IN /\ (apiFail # "describe_repositories") => ~raised
       /\ Len(batches) <= 1
       /\ \A b \in DOMAIN batches : SeqRange(batches[b]) = digests /\ digests # {}
       /\ (ppc = "done" /\ apiFail = None /\ digests # {}) => Len(batches) = 1
       /\ (ppc = "batch_delete") => digests # {}

\* A deletion set holding an image without a digest and one with a digest:
\* one call was issued and the digest-less image is still in the repository.
C13_Witness ==
    /\ ppc = "done" /\ apiFail = None /\ ~raised
    /\ Len(batches) = 1
    /\ \E i, j \in DOMAIN images_to_delete :
          /\ images_to_delete[i].imageDigest = Missing
          /\ images_to_delete[j].imageDigest # Missing
          /\ images_to_delete[i].n \in KeptImages
          /\ images_to_delete[j].n \in DeletedImages

\* C14: when describe_repositories reports the repository absent, the run
\* ends without raising, without a describe_images call, without a
\* batch_delete_image call and with every image untouched.
C14_AbsentRepositoryIsNoop ==
    (~repo_exists /\ ppc = "done" /\ apiFail = None) =>
        /\ ~raised
        /\ sorted_images.status = "unset"
        /\ images_to_delete = <<>>
        /\ batches = <<>>
        /\ images = images0

\* A finished run against an absent repository.
C14_Witness ==
    /\ ~repo_exists /\ ppc = "done" /\ apiFail = None /\ ~raised

\* ------------------------------------------------------------ test_agent

NoInvocation == \A i \in TestCases : invoked[i] = 0 /\ case_outcome[i] = "pending"

StatusQueries == {j \in DOMAIN tcalls : tcalls[j].op = "get_agent_runtime"}

\* test_agent got past the READY check.
PassedReady == status = "READY"

\* C15: when the status read for the resolved runtime is not READY, or
\* get_agent_runtime fails, test_agent returns False and has invoked nothing;
\* the status is queried at most once.
C15_NotReadyNoInvocation ==
    /\ Cardinality(StatusQueries) <= 1
    /\ ((status \in Statuses \ {"READY"}) \/ (\E j \in StatusQueries : ~tcalls[j].ok)) =>
          /\ test_result = "False"
          /\ tpc = "done"
          /\ NoInvocation

\* The runtime was resolved and its status read as UPDATING.
C15_Witness ==
    /\ agent_id # Missing
    /\ status = "UPDATING"
    /\ test_result = "False"

NameListed == \E j \in DOMAIN test_listing : test_listing[j].agentRuntimeName = test_agent_name

\* C16: when no listed runtime has the requested name, or
\* list_agent_runtimes fails, test_agent returns False without raising and
\* has issued neither a get_agent_runtime call nor an invocation.
C16_NotListedReturnsFalse ==
    (tcalls # <<>> /\ (~tcalls[1].ok \/ ~NameListed)) =>
        /\ test_result = "False"
        /\ tpc = "done"
        /\ StatusQueries = {}
        /\ Len(tcalls) = 1
        /\ NoInvocation

\* The listing returned a runtime, but none with the requested name.
C16_Witness ==
    /\ tcalls # <<>> /\ tcalls[1].ok
    /\ test_listing # <<>>
    /\ ~NameListed
    /\ test_result = "False"

\* C17: past the READY check every test case is invoked exactly once, in
\* order, whatever the earlier cases did: the function returns only after
\* all ten were invoked and logged, and a step that logs a case changes the
\* outcome of that case only.
C17_EveryCaseInvokedOnce ==
    /\ [](PassedReady =>
            /\ \A i \in TestCases :
                  /\ invoked[i] <= 1
                  /\ (i < test_i) => (invoked[i] = 1 /\ case_outcome[i] # "pending")
                  /\ (i > test_i) => (invoked[i] = 0 /\ case_outcome[i] = "pending")
            /\ (tpc \in {"report", "done"}) =>
                  \A i \in TestCases : invoked[i] = 1 /\ case_outcome[i] # "pending")
    /\ [][\A i \in TestCases :
            (case_outcome'[i] # case_outcome[i]) =>
                /\ i = test_i /\ case_outcome[i] = "pending"
                /\ \A j \in TestCases \ {i} : case_outcome'[j] = case_outcome[j]]_vars

\* The first case raised, and the nine others were still invoked, the last
\* one passing.
C17_Witness ==
    /\ tpc = "done"
    /\ case_outcome[1] = "failed"
    /\ \A i \in TestCases : invoked[i] = 1
    /\ \A i \in TestCases \ {1} : case_outcome[i] = "passed"

\* C18: past the READY check test_agent returns True exactly when none of
\* the ten cases failed, and a case whose response carries neither
\* 'response' nor 'payload' is logged as passed.
C18_ResultIsConjunction ==
    PassedReady =>
        /\ (tpc = "done") =>
              /\ test_result \in {"True", "False"}
              /\ (test_result = "True") <=> (\A i \in TestCases : case_outcome[i] = "passed")
        /\ (tpc \in {"report", "done"}) =>
              (all_passed <=> (\A i \in TestCases : case_outcome[i] = "passed"))
        /\ (tpc \in {"invoke", "report", "done"} /\ test_i > 1
             /\ last_response.kind = "status") =>
              case_outcome[test_i - 1] = "passed"

\* All ten cases passed, the last one with a status-only response.
C18_Witness ==
    /\ tpc = "done"
    /\ test_result = "True"
    /\ last_response.kind = "status"
    /\ \A i \in TestCases : case_outcome[i] = "passed"

\* ------------------------------------------------------------ deploy_agent

UpdateCalls(p) == {i \in DOMAIN calls[p] : calls[p][i].op = "update"}

\* C19: when the listing contains the target name and auto_update is true,
\* the run issues no create call and exactly one update call; the update is
\* keyed by the id of the listed runtime whose name is the target, which is
\* the id of the runtime of that name and of no other, and on success that
\* runtime carries the container URI the run was given.
C19_UpdateKeyedByListedId ==
    \A p \in Jobs :
        (Started(p) /\ ListedName(p) /\ args[p].auto_update) =>
            /\ "create" \notin Ops(p)
            /\ existing_agent[p] # NoneRec
            /\ existing_agent[p].agentRuntimeName = args[p].agent_name
            /\ IF pc[p] = "update" THEN UpdateCalls(p) = {}
               ELSE Cardinality(UpdateCalls(p)) = 1
            /\ \A i \in UpdateCalls(p) :
                  /\ \E j \in DOMAIN existing_agents[p] :
                        /\ existing_agents[p][j].agentRuntimeName = args[p].agent_name
                        /\ existing_agents[p][j].agentRuntimeId = calls[p][i].key
                  /\ \A r \in runtimes :
                        (r.agentRuntimeId = calls[p][i].key) =>
                            /\ r.agentRuntimeName = args[p].agent_name
                            /\ calls[p][i].ok => r.containerUri = args[p].container_uri

\* The target was listed second, after a runtime of another name, and the
\* update of the target's runtime to a new container URI succeeded.
C19_Witness ==
    \E p \in Jobs :
        /\ pc[p] = "done" /\ outcome[p].kind = "ok" /\ args[p].auto_update
        /\ Len(existing_agents[p]) = 2
        /\ existing_agents[p][1].agentRuntimeName # args[p].agent_name
        /\ existing_agents[p][2].agentRuntimeName = args[p].agent_name
        /\ calls[p][Len(calls[p])] = Call("update", existing_agents[p][2].agentRuntimeId, TRUE, None)
        /\ prev.agent_name # 0 /\ prev.kind = "ok"
        /\ prev.agent_name = args[p].agent_name
        /\ prev.container_uri # args[p].container_uri

\* The record of a returned dict, line by line.
RecordOf(res) ==
    File(<<<<"agent_arn", res.agent_arn>>, <<"agent_id", res.agent_id>>,
           <<"ecr_uri", res.ecr_uri>>>>)

\* The run before the current one succeeded.
PrevSucceeded == prev.agent_name # 0 /\ prev.kind = "ok"

\* C20: after a run has ended, deployment_info.txt is exactly the arn, id
\* and container URI of the most recent successful run: of this run when it
\* succeeded, and of the run before it when this one did not and that one
\* did.
C20_RecordIsLastSuccess ==
    \A p \in SeqJobs :
        (pc[p] = "done") =>
            /\ (outcome[p].kind = "ok") => deployment_info = RecordOf(result[p])
            /\ (outcome[p].kind # "ok" /\ PrevSucceeded) =>
                  deployment_info = RecordOf(prev.result)

\* ------------------------------------------------------------ test_agent

FinalStates == {"PARSED_OK", "PARSED_FALLBACK", "FAILED"}

\* C21: each test case goes from PENDING to INVOKED to exactly one of
\* PARSED_OK, PARSED_FALLBACK and FAILED and stays there (a call that raises
\* takes the case from PENDING to FAILED within the statement that invokes
\* it), and the cases run one at a time in the order of test_cases: a case
\* is invoked only when every case before it is in its final state.
C21_CaseStateMachine ==
    /\ [](\A i \in TestCases :
            /\ case_state[i] \in {"PENDING", "INVOKED"} \cup FinalStates
            /\ (case_state[i] = "PENDING") <=> (invoked[i] = 0)
            /\ (case_state[i] # "PENDING") => invoked[i] = 1
            /\ (case_state[i] # "PENDING") =>
                  \A j \in TestCases : (j < i) => case_state[j] \in FinalStates)
    /\ [][\A i \in TestCases :
            (case_state'[i] # case_state[i]) =>
                /\ \/ case_state[i] = "PENDING" /\ case_state'[i] = "INVOKED"
                   \/ case_state[i] = "INVOKED" /\ case_state'[i] \in FinalStates
                   \/ /\ case_state[i] = "PENDING" /\ case_state'[i] = "FAILED"
                      /\ invoked'[i] = invoked[i] + 1
                /\ \A j \in TestCases : (j < i) => case_state[j] \in FinalStates
                /\ \A j \in TestCases \ {i} : case_state'[j] = case_state[j]]_vars

\* The first three cases ended in the three final states, the fourth is
\* invoked and the fifth is still pending.
C21_Witness ==
    /\ case_state[1] = "PARSED_OK"
    /\ case_state[2] = "PARSED_FALLBACK"
    /\ case_state[3] = "FAILED"
    /\ case_state[4] = "INVOKED"
    /\ case_state[5] = "PENDING"

\* ------------------------------------------------------------ deploy_agent

\* The create and update calls a run has issued, successful or not.
MutatingCalls(p) == {i \in DOMAIN calls[p] : calls[p][i].op \in {"create", "update"}}

\* C22: a run issues at most one mutating call (one create_agent_runtime or
\* one update_agent_runtime, never both, never one twice), whether the call
\* succeeds or fails; a run that ended has issued one unless it ended with
\* the precondition failure or the Conflict, where it has issued none.
C22_AtMostOneMutatingCall ==
    \A p \in Jobs :
        /\ Cardinality(MutatingCalls(p)) <= 1
        /\ \A i \in MutatingCalls(p) : i = Len(calls[p])
        /\ (pc[p] = "done") =>
              (MutatingCalls(p) = {} <=> outcome[p].kind \in {"Precondition", "Conflict"})

\* A run whose update call failed has ended, the failing update being the
\* only mutating call it issued.
C22_Witness ==
    \E p \in Jobs :
        /\ pc[p] = "done" /\ outcome[p].kind = "RemoteFailure"
        /\ Len(calls[p]) = 2
        /\ calls[p][2].op = "update" /\ ~calls[p][2].ok
        /\ Cardinality(MutatingCalls(p)) = 1

\* Both jobs ran for the same name, which the listing of each showed, with
\* auto_update and different container URIs, and both succeeded.
BothUpdated ==
    /\ \A p \in Jobs :
          /\ pc[p] = "done" /\ outcome[p].kind = "ok"
          /\ args[p].auto_update /\ ListedName(p)
    /\ \A p, q \in Jobs :
          (p # q) => /\ args[p].agent_name = args[q].agent_name
                     /\ args[p].container_uri # args[q].container_uri

\* C23: when two runs for the same existing name with auto_update and
\* different container URIs interleave and both succeed, then once both have
\* ended the ecr_uri line of deployment_info.txt is the container URI the
\* runtime of that name holds.
C23_RecordMatchesRuntime ==
    BothUpdated =>
        /\ CompleteRecord(deployment_info)
        /\ \E r \in runtimes :
              /\ \A p \in Jobs : r.agentRuntimeName = args[p].agent_name
              /\ deployment_info.lines[3] = <<"ecr_uri", r.containerUri>>

\* ------------------------------------------------------------ create_guardrail

\* The guardrails named AgentCore-Minimal-Guardrail.
Minimal == {g \in guardrails : g.name = guardrail_name}

GuardrailListed ==
    \E j \in DOMAIN guardrail_listing : guardrail_listing[j].name = guardrail_name

CreateIssued == \E i \in DOMAIN gcalls : gcalls[i].op = "create_guardrail"

\* C24 as stated: create_guardrail is issued only when the listing lacks
\* the name, and, the listings having shown every guardrail, after any
\* number of calls exactly one guardrail with the name exists and every
\* call has returned its id.
C24_AsStated ==
    /\ CreateIssued => ~GuardrailListed
    /\ (~stale /\ gpc = "done") =>
          /\ goutcome = "returned"
          /\ Cardinality(Minimal) = 1
          /\ \A g \in Minimal : returned_ids = {g.id}

\* C24 (amended): create_guardrail is issued only when the listing lacks
\* the name; the listings having shown every guardrail, at most one
\* guardrail with the name ever exists, every call that returns returns the
\* id of that one guardrail, and a call whose list_guardrails or
\* create_guardrail fails raises without creating anything.
C24_OneGuardrailOneId ==
    /\ CreateIssued => ~GuardrailListed
    /\ ~stale =>
          /\ Cardinality(Minimal) <= 1
          /\ Cardinality(returned_ids) <= 1
          /\ \A id \in returned_ids : Minimal = {Guardrail(id, guardrail_name)}
          /\ (gpc = "done" /\ goutcome = "returned") =>
                /\ guardrail_id \in returned_ids
                /\ Minimal = {Guardrail(guardrail_id, guardrail_name)}
    /\ (gpc = "done" /\ goutcome = "raised") =>
          /\ gcalls # <<>> /\ ~gcalls[Len(gcalls)].ok
          /\ \A i \in DOMAIN gcalls : (gcalls[i].op = "create_guardrail") =>
                (gcalls[i].ok <=> guardrail_id # Missing)

\* The third call in a row has returned: the first created the guardrail
\* next to one of another name, and the later ones found it listed.
C24_Witness ==
    /\ gruns = MaxCalls /\ gpc = "done" /\ goutcome = "returned"
    /\ ~stale /\ ~CreateIssued
    /\ Len(guardrail_listing) = 2
    /\ guardrail_id_file = guardrail_id
    /\ Minimal = {Guardrail(3, guardrail_name)}
    /\ returned_ids = {3}

====
